---- MODULE Spec2Model ----
(***************************************************************************)
(* A model of deepseek_finetune.py: the module-level tracker start and     *)
(* device selection, then main(): setup_model, prepare_dataset,            *)
(* setup_trainer, trainer.train, save_pretrained, test_model, and the      *)
(* wandb.finish of main's finally block.  Every library call that can      *)
(* raise is one step with the outcomes "ok" and "raise".                   *)
(*                                                                         *)
(* A text is a sequence of symbols: a template line, a newline, a special  *)
(* token or one unit of a record's field.  The tokenizer maps one symbol   *)
(* to one token id.                                                        *)
(***************************************************************************)
EXTENDS Integers, Sequences, FiniteSets

\* ---------------------------------------------------------------- constants
MAX_NEW_TOKENS == 2048
MODEL_NAME == "deepseek-ai/DeepSeek-R1-Distill-Qwen-1.5B"

\* ------------------------------------------------------------------- bounds
\* the largest number of examples of a loaded dataset
MaxExamples == 3
\* by how many symbols the long field exceeds MAX_NEW_TOKENS
ExtraTokens == 2

\* ------------------------------------------------------------------- inputs
NL == "\n"
EosToken == "<eos>"
BosToken == "<bos>"

ShortText == <<"a">>
OtherText == <<"b", "</think>">>
LongText == [i \in 1..(MAX_NEW_TOKENS + ExtraTokens) |-> "a"]

Fields == {"Question", "Complex_CoT", "Response"}

\* well-formed records of the dataset
Samples ==
    { [Question |-> ShortText, Complex_CoT |-> OtherText, Response |-> ShortText],
      [Question |-> OtherText, Complex_CoT |-> ShortText, Response |-> <<>>],
      [Question |-> ShortText, Complex_CoT |-> LongText, Response |-> OtherText] }

\* records of a dataset that has no Response column
MalformedSamples ==
    { [Question |-> ShortText, Complex_CoT |-> OtherText] }

SeqsOver(S) == UNION { [1..n -> S] : n \in 1..MaxExamples }

\* what load_dataset can return: the rows of the "train" split of the hub dataset
Datasets == SeqsOver(Samples) \cup SeqsOver(MalformedSamples)

Processors == {"arm", "x86_64"}

\* -------------------------------------------------------------------- state
VARIABLES
    processor,       \* platform.processor()
    mps_available,   \* torch.backends.mps.is_available()
    cuda_available,  \* torch.cuda.is_available()
    device,          \* the module-level name device
    pc,              \* the statement the script is at
    exc,             \* the exception propagating, "none" when there is none
    wandb_run,       \* the tracker's run: "none", "active", "finished"
    offload,         \* the directory "offload" exists
    checkpoint,      \* what ./fine_tuned_model holds
    output_dir,      \* the trainer's output directory exists
    stdout,          \* the messages printed
    calls,           \* the stages and tracker calls begun, in order
    completed,       \* the stages that returned normally, in order
    tokenizer,       \* the tokenizer of setup_model
    model,           \* the model of setup_model
    dataset,         \* the name dataset of prepare_dataset
    train_dataset,   \* the name train_dataset of prepare_dataset and main
    test_error,      \* the exception the except clause of test_model caught
    exit_status      \* how the process ended

vars == << processor, mps_available, cuda_available, device, pc, exc, wandb_run,
           offload, checkpoint, output_dir, stdout, calls, completed, tokenizer,
           model, dataset, train_dataset, test_error, exit_status >>

host == << processor, mps_available, cuda_available >>
files == << offload, checkpoint, output_dir >>
data == << tokenizer, dataset, train_dataset >>

NoTokenizer == [eos_token |-> "None", bos_token |-> "None",
                pad_token |-> "None", padding_side |-> "None"]
NoDataset == [train |-> <<>>, test |-> <<>>]

Init ==
    /\ processor \in Processors
    /\ mps_available \in BOOLEAN
    /\ cuda_available \in BOOLEAN
    /\ device = "undefined"
    /\ pc = "wandb_init"
    /\ exc = "none"
    /\ wandb_run = "none"
    /\ offload = FALSE
    /\ checkpoint = "absent"
    /\ output_dir = FALSE
    /\ stdout = <<>>
    /\ calls = <<>>
    /\ completed = <<>>
    /\ tokenizer = NoTokenizer
    /\ model = "none"
    /\ dataset = NoDataset
    /\ train_dataset = <<>>
    /\ test_error = "none"
    /\ exit_status = "running"

\* ---------------------------------------------------------- pure functions
\* format_instruction with the answer and the reasoning trace exchanged
format_instruction_Swapped(sample, tok) ==
    << "### Instruction:", NL, "Please reason step by step:", NL, NL,
       "### Question:", NL >>
    \o sample["Question"]
    \o << NL, NL, "### Response:", NL, "<think>", NL, NL >>
    \o sample["Response"]
    \o << NL, "</think>", NL, NL >>
    \o sample["Complex_CoT"]
    \o << NL, tok.eos_token >>

\* the f-string of format_instruction
format_instruction(sample, tok) ==
    << "### Instruction:", NL, "Please reason step by step:", NL, NL,
       "### Question:", NL >>
    \o sample["Question"]
    \o << NL, NL, "### Response:", NL, "<think>", NL, NL >>
    \o sample["Complex_CoT"]
    \o << NL, "</think>", NL, NL >>
    \o sample["Response"]
    \o << NL, tok.eos_token >>

\* sample[...] raises KeyError for a field the record does not have
format_raises(sample) == ~ (Fields \subseteq DOMAIN sample)


\* the tokenizer's vocabulary: a symbol's id is its place in it
Vocabulary ==
    << BosToken, EosToken, NL, "### Instruction:", "Please reason step by step:",
       "### Question:", "### Response:", "<think>", "</think>", "a", "b" >>

TokenId(sym) == CHOOSE i \in 1..Len(Vocabulary) : Vocabulary[i] = sym

\* the tokenizer call with truncation left off
tokenizer_call_NoTruncation(tok, text, truncation, padding, max_length) ==
    LET ids == << TokenId(tok.bos_token) >> \o [i \in 1..Len(text) |-> TokenId(text[i])]
        n   == IF padding = "max_length" /\ Len(ids) < max_length
               THEN max_length - Len(ids) ELSE 0
        pad == [i \in 1..n |-> TokenId(tok.pad_token)]
    IN  [input_ids |-> ids \o pad,
         attention_mask |-> [i \in 1..Len(ids) |-> 1] \o [i \in 1..n |-> 0]]

\* tokenizer(text, truncation=, padding=, max_length=, return_tensors=None):
\* the begin-of-sequence id and one id per symbol, cut to max_length, then
\* padded with the pad token's id on the padding side
tokenizer_call(tok, text, truncation, padding, max_length) ==
    LET ids == << TokenId(tok.bos_token) >> \o [i \in 1..Len(text) |-> TokenId(text[i])]
        cut == IF truncation /\ Len(ids) > max_length
               THEN SubSeq(ids, 1, max_length) ELSE ids
        n   == IF padding = "max_length" /\ Len(cut) < max_length
               THEN max_length - Len(cut) ELSE 0
        pad == [i \in 1..n |-> TokenId(tok.pad_token)]
        ones == [i \in 1..Len(cut) |-> 1]
        zeros == [i \in 1..n |-> 0]
    IN  IF tok.padding_side = "right"
        THEN [input_ids |-> cut \o pad, attention_mask |-> ones \o zeros]
        ELSE [input_ids |-> pad \o cut, attention_mask |-> zeros \o ones]

\* train_test_split(train_size=0.9, test_size=0.1): the sizes of the two splits
n_train(n) == (9 * n) \div 10
n_test(n) == (n + 9) \div 10

\* the orders in which a shuffle can leave the rows 1..n
RowOrders(n) == { p \in [1..n -> 1..n] : \A i, j \in 1..n : p[i] = p[j] => i = j }

\* the DatasetDict train_test_split returns for the row order perm
train_test_split(rows, perm) ==
    LET n == Len(rows)
    IN  [test  |-> [i \in 1..n_test(n) |-> rows[perm[i]]],
         train |-> [i \in 1..n_train(n) |-> rows[perm[n_test(n) + i]]]]

\* ------------------------------------------------------------------ helpers
\* an exception leaves main through its finally block
Raise(e) ==
    /\ exc' = e
    /\ pc' = "main_finally"

Emit(msgs) == stdout' = stdout \o msgs

Call(name) == calls' = Append(calls, name)

Return(stage) == completed' = Append(completed, stage)

\* ------------------------------------------------------------ module level
\* wandb.init(project=..., config=...)
WandbInit ==
    /\ pc = "wandb_init"
    /\ Call("wandb.init")
    /\ \/ /\ wandb_run' = "active"
          /\ pc' = "select_device"
          /\ UNCHANGED << exc, exit_status >>
       \/ /\ exc' = "Exception"
          /\ pc' = "exit"
          /\ exit_status' = "failure"
          /\ UNCHANGED wandb_run
    /\ UNCHANGED << host, device, files, stdout, completed, data, model, test_error >>

\* the device selection with "or" for "and" in its first test
SelectDevice_Or ==
    /\ pc = "select_device"
    /\ Call("select_device")
    /\ IF processor = "arm" \/ mps_available
       THEN /\ Emit(<< "Using Apple Silicon MPS (Metal Performance Shaders)" >>)
            /\ device' = "mps"
       ELSE IF cuda_available
            THEN /\ Emit(<< "Using CUDA GPU" >>)
                 /\ device' = "cuda"
            ELSE /\ Emit(<< "Using CPU" >>)
                 /\ device' = "cpu"
    /\ pc' = "setup_model"
    /\ UNCHANGED << host, exc, wandb_run, files, completed, data, model, test_error,
                    exit_status >>

\* the if / elif / else that binds device
SelectDevice ==
    /\ pc = "select_device"
    /\ Call("select_device")
    /\ IF processor = "arm" /\ mps_available
       THEN /\ Emit(<< "Using Apple Silicon MPS (Metal Performance Shaders)" >>)
            /\ device' = "mps"
       ELSE IF cuda_available
            THEN /\ Emit(<< "Using CUDA GPU" >>)
                 /\ device' = "cuda"
            ELSE /\ Emit(<< "Using CPU" >>)
                 /\ device' = "cpu"
    /\ pc' = "setup_model"
    /\ UNCHANGED << host, exc, wandb_run, files, completed, data, model, test_error,
                    exit_status >>

\* ---------------------------------------------------------------- main()
\* print("Setting up model..."); model, tokenizer = setup_model()
SetupModel ==
    /\ pc = "setup_model"
    /\ Call("setup_model")
    /\ Emit(<< "Setting up model..." >>)
    /\ \/ /\ tokenizer' = [eos_token |-> EosToken, bos_token |-> BosToken,
                           pad_token |-> EosToken, padding_side |-> "right"]
          /\ model' = "base"
          /\ Return("setup_model")
          /\ pc' = "load_dataset"
          /\ UNCHANGED exc
       \/ /\ Raise("OSError")
          /\ UNCHANGED << tokenizer, model, completed >>
    /\ UNCHANGED << host, device, wandb_run, files, dataset, train_dataset, test_error,
                    exit_status >>

\* print("Preparing dataset..."); prepare_dataset: load_dataset(...) and its print
LoadDataset ==
    /\ pc = "load_dataset"
    /\ Call("prepare_dataset")
    /\ \/ \E rows \in Datasets :
             /\ dataset' = [train |-> rows, test |-> <<>>]
             /\ Emit(<< "Preparing dataset...", "Dataset loaded" >>)
             /\ pc' = "split_dataset"
             /\ UNCHANGED exc
       \/ /\ Raise("ConnectionError")
          /\ Emit(<< "Preparing dataset..." >>)
          /\ UNCHANGED dataset
    /\ UNCHANGED << host, device, wandb_run, files, completed, tokenizer, model,
                    train_dataset, test_error, exit_status >>

\* dataset = dataset["train"].train_test_split(train_size=0.9, test_size=0.1, seed=42)
SplitDataset ==
    /\ pc = "split_dataset"
    /\ IF n_train(Len(dataset.train)) = 0
       THEN /\ Raise("ValueError")
            /\ UNCHANGED dataset
       ELSE /\ \E perm \in RowOrders(Len(dataset.train)) :
                  dataset' = train_test_split(dataset.train, perm)
            /\ pc' = "format_dataset"
            /\ UNCHANGED exc
    /\ UNCHANGED << host, device, wandb_run, files, stdout, calls, completed, tokenizer,
                    model, train_dataset, test_error, exit_status >>

\* train_dataset = dataset["train"].map(lambda x: {"text": format_instruction(x)}, ...)
FormatDataset ==
    /\ pc = "format_dataset"
    /\ IF \E i \in 1..Len(dataset.train) : format_raises(dataset.train[i])
       THEN /\ Raise("KeyError")
            /\ UNCHANGED train_dataset
       ELSE /\ train_dataset' =
                  [i \in 1..Len(dataset.train) |->
                      [text |-> format_instruction(dataset.train[i], tokenizer)]]
            /\ pc' = "tokenize_dataset"
            /\ UNCHANGED exc
    /\ UNCHANGED << host, device, wandb_run, files, stdout, calls, completed, tokenizer,
                    model, dataset, test_error, exit_status >>

\* train_dataset = train_dataset.map(lambda x: tokenizer(x["text"], ...),
\* remove_columns=["text"]), the prints and the return
TokenizeDataset ==
    /\ pc = "tokenize_dataset"
    /\ train_dataset' =
          [i \in 1..Len(train_dataset) |->
              tokenizer_call(tokenizer, train_dataset[i].text, TRUE, "max_length",
                             MAX_NEW_TOKENS)]
    /\ Emit(<< "Using examples for training", "Sample formatted data:" >>)
    /\ Return("prepare_dataset")
    /\ pc' = "setup_trainer"
    /\ UNCHANGED << host, device, exc, wandb_run, files, calls, tokenizer, model,
                    dataset, test_error, exit_status >>

\* main going from the trainer's setup straight to the save
SetupTrainer_SkipsTraining ==
    /\ pc = "setup_trainer"
    /\ Call("setup_trainer")
    /\ Emit(<< "Setting up trainer..." >>)
    /\ \/ /\ model' = "peft"
          /\ Return("setup_trainer")
          /\ pc' = "save"
          /\ UNCHANGED exc
       \/ /\ Raise("ValueError")
          /\ UNCHANGED << model, completed >>
    /\ UNCHANGED << host, device, wandb_run, files, data, test_error, exit_status >>

\* print("Setting up trainer..."); trainer = setup_trainer(model, tokenizer, ...)
SetupTrainer ==
    /\ pc = "setup_trainer"
    /\ Call("setup_trainer")
    /\ Emit(<< "Setting up trainer..." >>)
    /\ \/ /\ model' = "peft"
          /\ Return("setup_trainer")
          /\ pc' = "train"
          /\ UNCHANGED exc
       \/ /\ Raise("ValueError")
          /\ UNCHANGED << model, completed >>
    /\ UNCHANGED << host, device, wandb_run, files, data, test_error, exit_status >>

\* main swallowing a failure of trainer.train() and going on to the save
Train_ContinuesAfterFailure ==
    /\ pc = "train"
    /\ Call("train")
    /\ Emit(<< "Starting training..." >>)
    /\ \/ /\ model' = "trained"
          /\ output_dir' = TRUE
          /\ Return("train")
       \/ /\ output_dir' \in {output_dir, TRUE}
          /\ UNCHANGED << model, completed >>
    /\ pc' = "save"
    /\ UNCHANGED << host, device, exc, wandb_run, offload, checkpoint, data, test_error,
                    exit_status >>

\* print("Starting training..."); trainer.train()
Train ==
    /\ pc = "train"
    /\ Call("train")
    /\ Emit(<< "Starting training..." >>)
    /\ \/ /\ model' = "trained"
          /\ output_dir' = TRUE
          /\ Return("train")
          /\ pc' = "save"
          /\ UNCHANGED exc
       \/ /\ Raise("RuntimeError")
          /\ output_dir' \in {output_dir, TRUE}
          /\ UNCHANGED << model, completed >>
    /\ UNCHANGED << host, device, wandb_run, offload, checkpoint, data, test_error,
                    exit_status >>

\* print("Saving model..."); trainer.model.save_pretrained("./fine_tuned_model")
SaveModel ==
    /\ pc = "save"
    /\ Call("save")
    /\ Emit(<< "Saving model..." >>)
    /\ \/ /\ checkpoint' = "adapter"
          /\ Return("save")
          /\ pc' = "test_makedirs"
          /\ UNCHANGED exc
       \/ /\ Raise("OSError")
          /\ checkpoint' \in {checkpoint, "partial"}
          /\ UNCHANGED completed
    /\ UNCHANGED << host, device, wandb_run, offload, output_dir, data, model,
                    test_error, exit_status >>

\* ----------------------------------------------------------- test_model()
\* print("Testing model..."); os.makedirs("offload", exist_ok=True)
TestMakedirs ==
    /\ pc = "test_makedirs"
    /\ Call("test_model")
    /\ Emit(<< "Testing model..." >>)
    /\ offload' = TRUE
    /\ pc' = "test_load_model"
    /\ UNCHANGED << host, device, exc, wandb_run, checkpoint, output_dir, completed,
                    data, model, test_error, exit_status >>

\* model = AutoModelForCausalLM.from_pretrained(model_path, ..., offload_folder="offload")
TestLoadModel ==
    /\ pc = "test_load_model"
    /\ \/ /\ model' = "reloaded"
          /\ pc' = "test_load_tokenizer"
          /\ UNCHANGED exc
       \/ /\ Raise("OSError")
          /\ UNCHANGED model
    /\ UNCHANGED << host, device, wandb_run, files, stdout, calls, completed, data,
                    test_error, exit_status >>

\* tokenizer = AutoTokenizer.from_pretrained(MODEL_NAME, ..., padding_side="right")
TestLoadTokenizer ==
    /\ pc = "test_load_tokenizer"
    /\ \/ /\ pc' = "test_pipeline"
          /\ UNCHANGED exc
       \/ Raise("OSError")
    /\ UNCHANGED << host, device, wandb_run, files, stdout, calls, completed, data,
                    model, test_error, exit_status >>

\* pipe = pipeline("text-generation", model=model, tokenizer=tokenizer, ...)
TestPipeline ==
    /\ pc = "test_pipeline"
    /\ \/ /\ pc' = "test_generate"
          /\ UNCHANGED exc
       \/ Raise("ValueError")
    /\ UNCHANGED << host, device, wandb_run, files, stdout, calls, completed, data,
                    model, test_error, exit_status >>

ErrorMessages ==
    << "Error during testing",
       "Model was saved successfully but testing failed. You can load the model separately for testing." >>

\* the try block (pipe(...), the two prints, wandb.log) and its except clause
TestGenerate ==
    /\ pc = "test_generate"
    /\ \/ /\ Emit(<< "Test Problem:", "Model Response:" >>)
          /\ Call("wandb.log")
          /\ UNCHANGED test_error
       \/ /\ test_error' = "generation"
          /\ Emit(ErrorMessages)
          /\ UNCHANGED calls
       \/ /\ Call("wandb.log")
          /\ test_error' = "wandb.log"
          /\ Emit(<< "Test Problem:", "Model Response:" >> \o ErrorMessages)
    /\ pc' = "test_finally"
    /\ UNCHANGED << host, device, exc, wandb_run, files, completed, data, model,
                    exit_status >>

\* the cleanup removing model_path instead of the offload directory
TestFinally_RemovesModelPath ==
    /\ pc = "test_finally"
    /\ checkpoint' = "absent"
    /\ Return("test_model")
    /\ pc' = "main_finally"
    /\ UNCHANGED << host, device, exc, wandb_run, offload, output_dir, stdout, calls,
                    data, model, test_error, exit_status >>

\* finally: if os.path.exists("offload"): shutil.rmtree("offload"); return to main
TestFinally ==
    /\ pc = "test_finally"
    /\ offload' = FALSE
    /\ Return("test_model")
    /\ pc' = "main_finally"
    /\ UNCHANGED << host, device, exc, wandb_run, checkpoint, output_dir, stdout, calls,
                    data, model, test_error, exit_status >>

\* main without its try / finally: wandb.finish() only when no stage raised
MainFinally_OnSuccessOnly ==
    /\ pc = "main_finally"
    /\ IF exc = "none"
       THEN /\ Call("wandb.finish")
            /\ wandb_run' = "finished"
       ELSE UNCHANGED << calls, wandb_run >>
    /\ exit_status' = IF exc = "none" THEN "success" ELSE "failure"
    /\ pc' = "exit"
    /\ UNCHANGED << host, device, exc, files, stdout, completed, data, model,
                    test_error >>

\* main's finally: wandb.finish(), then the exception, if any, leaves main
MainFinally ==
    /\ pc = "main_finally"
    /\ Call("wandb.finish")
    /\ wandb_run' = "finished"
    /\ exit_status' = IF exc = "none" THEN "success" ELSE "failure"
    /\ pc' = "exit"
    /\ UNCHANGED << host, device, exc, files, stdout, completed, data, model,
                    test_error >>

Next ==
    \/ WandbInit
    \/ SelectDevice
    \/ SetupModel
    \/ LoadDataset
    \/ SplitDataset
    \/ FormatDataset
    \/ TokenizeDataset
    \/ SetupTrainer
    \/ Train
    \/ SaveModel
    \/ TestMakedirs
    \/ TestLoadModel
    \/ TestLoadTokenizer
    \/ TestPipeline
    \/ TestGenerate
    \/ TestFinally
    \/ MainFinally

Spec == Init /\ [][Next]_vars

\* ------------------------------------------------------------- properties
Range(seq) == { seq[i] : i \in DOMAIN seq }

Last(seq) == seq[Len(seq)]

StageOrder ==
    << "setup_model", "prepare_dataset", "setup_trainer", "train", "save", "test_model" >>

IsStage(name) == name \in Range(StageOrder)

\* the stages begun, in order
StagesBegun == SelectSeq(calls, IsStage)

\* the statements inside a stage that takes more than one step
Inside(stage) ==
    CASE stage = "prepare_dataset" -> {"split_dataset", "format_dataset", "tokenize_dataset"}
      [] stage = "test_model" -> {"test_load_model", "test_load_tokenizer",
                                  "test_pipeline", "test_generate", "test_finally"}
      [] OTHER -> {}

\* the stage was begun, is no longer running and did not return normally
Failed(stage) ==
    /\ stage \in Range(calls)
    /\ stage \notin Range(completed)
    /\ pc \notin Inside(stage)

TestPcs == {"test_makedirs"} \cup Inside("test_model")

\* sub occurs in text at position pos
Occurs(text, pos, sub) ==
    /\ pos >= 1
    /\ pos + Len(sub) - 1 <= Len(text)
    /\ SubSeq(text, pos, pos + Len(sub) - 1) = sub

Times(seq, name) == Cardinality({ i \in DOMAIN seq : seq[i] = name })

\* C1: the offload directory is absent when the smoke test starts and absent again
\* once test_model has been left, on its success path and on every failure path.
C1_OffloadAbsentAroundSmokeTest ==
    /\ pc = "test_makedirs" => ~ offload
    /\ ("test_model" \in Range(calls) /\ pc \in {"main_finally", "exit"}) => ~ offload

\* C2: once the smoke test has begun, whatever raises in it (the reload, the pipeline,
\* the prompt) is caught: test_model returns normally and the run ends as a success.
C2_SmokeTestFailureNonFatal ==
    ("test_model" \in Range(calls) /\ pc = "exit") =>
        /\ exit_status = "success"
        /\ "test_model" \in Range(completed)

\* a step of the smoke test leaves the checkpoint and the trainer's output directory
\* as they are, and when its except clause catches an error the error is printed
SmokeTestStep ==
    pc \in TestPcs =>
        /\ checkpoint' = checkpoint
        /\ output_dir' = output_dir
        /\ test_error' # test_error =>
              /\ Len(stdout') >= Len(ErrorMessages)
              /\ Occurs(stdout', Len(stdout') - Len(ErrorMessages) + 1, ErrorMessages)
              /\ pc' = "test_finally"

\* C3: during the smoke test the saved checkpoint is there and no step changes it or
\* the trainer's output directory (only the offload directory changes), and a step in
\* which the except clause catches an error ends with the error messages printed.
C3_SmokeTestLeavesCheckpoint ==
    /\ [](pc \in TestPcs => checkpoint = "adapter")
    /\ [][SmokeTestStep]_vars

C3_Witness ==
    /\ pc = "exit"
    /\ test_error = "generation"
    /\ checkpoint = "adapter"
    /\ ~ offload

\* C4: a stage that failed (begun, left, not returned normally) leaves an exception
\* propagating through main's finally to a failed exit, is not begun again, and
\* no later stage is begun after it; a failed save or an earlier failure means the
\* smoke test never ran.
C4_FailurePropagates ==
    \A stage \in Range(StageOrder) :
        Failed(stage) =>
            /\ exc # "none"
            /\ pc \in {"main_finally", "exit"}
            /\ pc = "exit" => exit_status = "failure"
            /\ Last(StagesBegun) = stage
            /\ Times(calls, stage) = 1
            /\ stage # "test_model" => ~ offload /\ test_error = "none"
            /\ stage \notin {"save", "test_model"} => checkpoint = "absent"

C4_Witness ==
    /\ pc = "exit"
    /\ exit_status = "failure"
    /\ Failed("train")
    /\ checkpoint = "absent"

\* C5: the stages begun are a prefix of the fixed order, each begun once, and a
\* stage is begun only when all the stages before it have returned normally; the
\* smoke test is begun only with the model trained and the checkpoint saved.
C5_StagesInOrder ==
    /\ Len(StagesBegun) <= Len(StageOrder)
    /\ StagesBegun = SubSeq(StageOrder, 1, Len(StagesBegun))
    /\ Len(completed) <= Len(StagesBegun)
    /\ completed = SubSeq(StageOrder, 1, Len(completed))
    /\ Len(StagesBegun) <= Len(completed) + 1
    /\ "test_model" \in Range(calls) =>
          /\ {"train", "save"} \subseteq Range(completed)
          /\ checkpoint = "adapter"

C5_Witness ==
    /\ pc = "exit"
    /\ completed = StageOrder
    /\ exit_status = "success"

\* C6: the text format_instruction makes of a well-formed record starts with the
\* instruction template, then holds the question verbatim, the response header, the
\* opening delimiter, the reasoning trace, the closing delimiter, the answer
\* verbatim, and ends with the tokenizer's end-of-sequence marker.
C6_FormatInstruction ==
    pc = "tokenize_dataset" =>
        \A i \in DOMAIN train_dataset :
            LET sample == dataset.train[i]
                text == train_dataset[i].text
                head == << "### Instruction:", NL, "Please reason step by step:", NL, NL,
                           "### Question:", NL >>
                q == Len(head) + 1
                open == q + Len(sample.Question) + 4
                c == open + 3
                close == c + Len(sample.Complex_CoT) + 1
                r == close + 3
            IN  /\ Len(train_dataset) = Len(dataset.train)
                /\ Occurs(text, 1, head)
                /\ Occurs(text, q, sample.Question)
                /\ Occurs(text, q + Len(sample.Question), << NL, NL, "### Response:", NL >>)
                /\ Occurs(text, open, << "<think>", NL, NL >>)
                /\ Occurs(text, c, sample.Complex_CoT)
                /\ Occurs(text, close - 1, << NL, "</think>", NL, NL >>)
                /\ Occurs(text, r, sample.Response)
                /\ q < open /\ open < c /\ c <= close /\ close < r
                /\ Len(text) = r + Len(sample.Response) + 1
                /\ text[Len(text) - 1] = NL
                /\ Last(text) = tokenizer.eos_token
                /\ tokenizer.eos_token = EosToken

C6_Witness ==
    /\ pc = "tokenize_dataset"
    /\ \E i \in DOMAIN train_dataset :
          /\ dataset.train[i].Complex_CoT = LongText
          /\ dataset.train[i].Question # dataset.train[i].Response
          /\ Len(train_dataset[i].text) > MAX_NEW_TOKENS
    /\ \E i \in DOMAIN train_dataset : dataset.train[i].Response = <<>>

\* the number of tokens of example i before truncation and padding
RawLength(i) == Len(format_instruction(dataset.train[i], tokenizer)) + 1

\* C7: every example prepare_dataset returns has exactly MAX_NEW_TOKENS token ids:
\* a shorter text keeps its tokens and is padded on the right with the pad token, a
\* longer one is cut down to its first MAX_NEW_TOKENS tokens.
C7_FixedLength ==
    "prepare_dataset" \in Range(completed) =>
        /\ Len(train_dataset) = Len(dataset.train)
        /\ \A i \in DOMAIN train_dataset :
              LET ids == train_dataset[i].input_ids
                  mask == train_dataset[i].attention_mask
                  kept == IF RawLength(i) < MAX_NEW_TOKENS THEN RawLength(i)
                          ELSE MAX_NEW_TOKENS
              IN  /\ Len(ids) = MAX_NEW_TOKENS
                  /\ Len(mask) = MAX_NEW_TOKENS
                  /\ \A j \in 1..kept : mask[j] = 1
                  /\ \A j \in (kept + 1)..MAX_NEW_TOKENS :
                        mask[j] = 0 /\ ids[j] = TokenId(tokenizer.pad_token)

C7_Witness ==
    /\ "prepare_dataset" \in Range(completed)
    /\ \E i, j \in DOMAIN train_dataset :
          /\ RawLength(i) > MAX_NEW_TOKENS
          /\ Len(train_dataset[i].input_ids) = MAX_NEW_TOKENS
          /\ RawLength(j) < MAX_NEW_TOKENS
          /\ Len(train_dataset[j].input_ids) = MAX_NEW_TOKENS
          /\ train_dataset[j].attention_mask[MAX_NEW_TOKENS] = 0

\* C9: once the selection has run the device is one of the three, "mps" exactly when
\* the processor is arm and MPS is available, otherwise "cuda" exactly when CUDA is
\* available, otherwise "cpu"; before it has run the device is not bound, and the
\* selection always runs once the tracker has started.
C9_DeviceSelection ==
    LET apple == processor = "arm" /\ mps_available
    IN  /\ "select_device" \in Range(calls) =>
              /\ device \in {"mps", "cuda", "cpu"}
              /\ device = "mps" <=> apple
              /\ device = "cuda" <=> (~ apple /\ cuda_available)
              /\ device = "cpu" <=> (~ apple /\ ~ cuda_available)
              /\ Len(stdout) >= 1
        /\ "select_device" \notin Range(calls) =>
              /\ device = "undefined"
              /\ pc \in {"wandb_init", "select_device", "exit"}
              /\ pc = "exit" => exc # "none"

C9_Witness ==
    /\ processor = "arm"
    /\ ~ mps_available
    /\ cuda_available
    /\ device = "cuda"

\* C10: wandb.finish is called at most once and nothing is begun or logged after it;
\* when main has ended, by whichever path, it has been called exactly once; while
\* main runs it has not been called.
C10_FinishOnceLast ==
    /\ Times(calls, "wandb.finish") <= 1
    /\ Times(calls, "wandb.finish") = 1 =>
          /\ Last(calls) = "wandb.finish"
          /\ wandb_run = "finished"
          /\ pc = "exit"
    /\ ("setup_model" \in Range(calls) /\ pc = "exit") => Times(calls, "wandb.finish") = 1
    /\ pc # "exit" => Times(calls, "wandb.finish") = 0

C10_Witness ==
    /\ pc = "exit"
    /\ Failed("prepare_dataset")
    /\ exc = "KeyError"
    /\ Times(calls, "wandb.finish") = 1

====
